---- MODULE Spec2Model ----
(***************************************************************************)
(* Model of worker/bot.py: the per-fixture lifecycle (process_match), the  *)
(* resolution engine (check_unresolved_bets) and the FirebaseManager store *)
(* operations they use.                                                    *)
(*                                                                         *)
(* The Firestore collections tracked_matches, unresolved_bets and          *)
(* resolved_bets are sets of documents, each carrying its document id in   *)
(* the field id; document(id).set replaces the document with that id,      *)
(* set(..., merge=True) overwrites the given fields only.  A transaction   *)
(* is all-or-nothing: it either applies all its writes or raises and       *)
(* applies none.                                                           *)
(*                                                                         *)
(* Python values are encoded as strings: "True", "False", "None"; a key    *)
(* that a document does not hold is "absent".  An absent elapsed minute    *)
(* or goal count (Python None) is the integer -1.  Timestamps are reduced  *)
(* to last_update being "fresh" or "old" (older than the cleanup cutoff).  *)
(* Fields that no condition of the code reads (match_name, league,         *)
(* country, placed_at, resolved_at, match_data, resolution_data) are left  *)
(* out of the documents; a notification is reduced to its kind.            *)
(*                                                                         *)
(* last_cycle records what the last whole cycle (run_bot_cycle) returned,   *)
(* what get_live_matches returned in it and whether it got as far as       *)
(* check_unresolved_bets.                                                  *)
(*                                                                         *)
(* Spec has every handler run to completion.  SpecCrash adds runs that     *)
(* are cut short (process death, or an exception leaving the handler)      *)
(* after any number of their store writes and notifications.  SpecLive     *)
(* adds weak fairness of the resolution cycle in which the feed answers    *)
(* for every finished fixture that has a pending decision.  SpecFaults     *)
(* adds to SpecCrash the runs in which a store read raises inside the      *)
(* store client (which then answers "no document" or "no documents") or    *)
(* send_telegram fails on all its attempts; a store write that raises ends *)
(* the run like a crash at that write.                                     *)
(* SpecForeign adds to Spec pending decisions of an unknown kind that       *)
(* another writer puts into unresolved_bets.                               *)
(* SpecCycle runs whole bot cycles (run_bot_cycle) against a feed that may *)
(* answer any request with a rate-limit status or an error.                *)
(* SpecMain runs the iterations of main: a whole cycle, the update of       *)
(* consecutive_errors, the alert, health_check and the sleep.  main leaves  *)
(* its loop only when the user interrupts it, which is not modelled.       *)
(***************************************************************************)
EXTENDS Integers, Sequences, FiniteSets, TLC

NumFixtures == 1
MaxGoals == 1
MaxEffects == 4

Fixtures == 1..NumFixtures

NoCrash == MaxEffects
CrashPoints == 1..(MaxEffects - 1)

None == "None"
Absent == "absent"
NoElapsed == -1
NoGoals == -1

Phases == <<"NS", "1H", "HT", "2H", "FT">>

VARIABLES tracked_matches, unresolved_bets, resolved_bets, phase, sent, last_cycle,
          consecutive_errors, sleep_time, main_sent, main_pc

\* The state of main: its counter, the sleep it chose in its last iteration,
\* the notifications main itself sent in that iteration, and where it is.
driver == <<consecutive_errors, sleep_time, main_sent, main_pc>>

vars == <<tracked_matches, unresolved_bets, resolved_bets, phase, sent, last_cycle,
          consecutive_errors, sleep_time, main_sent, main_pc>>

(***************************************************************************)
(* Document store primitives                                               *)
(***************************************************************************)
Exists(coll, id) == \E d \in coll : d.id = id

Doc(coll, id) == CHOOSE d \in coll : d.id = id

DocDelete(coll, id) == {d \in coll : d.id # id}

\* Mutant of DocSet: the write appends a document instead of replacing the one
\* that has the same id.
DocSet_Appends(coll, doc) == coll \cup {doc}

DocSet(coll, doc) == {d \in coll : d.id # doc.id} \cup {doc}

TrackedKeys == {"bet36_placed", "result36_checked", "bet36_won", "bet80_placed",
                "bet80_resolved", "score36", "ht_score", "score80",
                "regular_resolved", "last_update"}

EmptyTracked(id) == [k \in TrackedKeys \cup {"id"} |-> IF k = "id" THEN id ELSE Absent]

MergeFields(doc, data) ==
    [k \in DOMAIN doc |-> IF k \in DOMAIN data THEN data[k] ELSE doc[k]]

DocMerge(coll, id, data) ==
    LET base == IF Exists(coll, id) THEN Doc(coll, id) ELSE EmptyTracked(id)
    IN  DocSet(coll, MergeFields(base, data))

\* The store operations whose exception handler swallows the error and returns
\* an empty answer.
ReadOps == {"get_tracked_match", "get_unresolved_bets"}

\* The outside operations that fail without raising: the store reads, and
\* send_telegram, which returns False after its attempts.
ExternalOps == ReadOps \cup {"send_telegram"}

\* The services as a handler sees them: the three collections, and the
\* operations that fail during the run (a store read raising inside the store
\* client, the notification service not accepting the message).
Store == [tracked |-> tracked_matches, unresolved |-> unresolved_bets,
          resolved |-> resolved_bets, failing |-> {}]

StoreFailing(failing) == [Store EXCEPT !.failing = failing]

Persisted(s) == [s EXCEPT !.failing = {}]

(***************************************************************************)
(* Python helpers                                                          *)
(***************************************************************************)
Falsy(v) == v \in {None, "False"}

Truthy(v) == ~Falsy(v)

Upper(s) ==
    CASE s = "1h" -> "1H"
      [] s = "ht" -> "HT"
      [] s = "2h" -> "2H"
      [] s = "live" -> "LIVE"
      [] OTHER -> s

OrZero(g) == IF g = NoGoals \/ g = 0 THEN 0 ELSE g

ScoreString(home, away) == ToString(OrZero(home)) \o "-" \o ToString(OrZero(away))

PyBool(b) == IF b THEN "True" ELSE "False"

CleanData(data) ==
    LET keep == {k \in DOMAIN data : data[k] # None}
    IN  [k \in keep |-> data[k]]

(***************************************************************************)
(* FirebaseManager                                                         *)
(***************************************************************************)
get_tracked_match(s, match_id) ==
    IF "get_tracked_match" \in s.failing
    THEN [found |-> FALSE, dict |-> [k \in TrackedKeys |-> None]]
    ELSE IF Exists(s.tracked, match_id)
    THEN LET d == Doc(s.tracked, match_id)
         IN  [found |-> TRUE,
              dict |-> [k \in TrackedKeys |-> IF d[k] = Absent THEN None ELSE d[k]]]
    ELSE [found |-> FALSE, dict |-> [k \in TrackedKeys |-> None]]

update_tracked_match(s, match_id, data) ==
    [s EXCEPT !.tracked = DocMerge(@, match_id, CleanData(data))]

get_unresolved_bets(s, bet_type) ==
    IF "get_unresolved_bets" \in s.failing THEN {}
    ELSE IF bet_type = None THEN s.unresolved
    ELSE {d \in s.unresolved : d.bet_type = bet_type}

\* Mutant of add_unresolved_bet: the tracked_matches document is not required.
add_unresolved_bet_Unchecked(s, match_id, data, tracked_updates) ==
    [ok |-> TRUE,
     s |-> [s EXCEPT !.unresolved = DocSet(@, data),
                     !.tracked = DocMerge(@, match_id, tracked_updates)]]

add_unresolved_bet(s, match_id, data, tracked_updates) ==
    IF ~Exists(s.tracked, match_id)
    THEN [ok |-> FALSE, s |-> s]
    ELSE [ok |-> TRUE,
          s |-> [s EXCEPT !.unresolved = DocSet(@, data),
                          !.tracked = DocMerge(@, match_id, tracked_updates)]]

_can_remove_tracked_match(tracked_data, bet_type) ==
    IF bet_type = "chase" THEN TRUE
    ELSE IF bet_type = "regular" /\ tracked_data.bet36_won = "False" THEN FALSE
    ELSE TRUE

ResolvedData(match_id, bet_info, outcome) ==
    [id |-> match_id, bet |-> bet_info, outcome |-> outcome]

\* Mutant of move_to_resolved: the resolved record is written but the pending
\* entry is not deleted.
move_to_resolved_KeepsPending(s, match_id, bet_info, outcome) ==
    IF ~Exists(s.unresolved, match_id)
    THEN [ok |-> FALSE, s |-> s]
    ELSE [ok |-> TRUE,
          s |-> [s EXCEPT !.resolved = DocSet(@, ResolvedData(match_id, bet_info, outcome))]]

move_to_resolved(s, match_id, bet_info, outcome) ==
    IF ~Exists(s.unresolved, match_id)
    THEN [ok |-> FALSE, s |-> s]
    ELSE LET tracked2 ==
                 IF ~Exists(s.tracked, match_id) THEN s.tracked
                 ELSE IF _can_remove_tracked_match(Doc(s.tracked, match_id), bet_info.bet_type)
                      THEN DocDelete(s.tracked, match_id)
                      ELSE DocMerge(s.tracked, match_id,
                                    [regular_resolved |-> "True", last_update |-> "fresh"])
         IN  [ok |-> TRUE,
              s |-> [s EXCEPT !.tracked = tracked2,
                              !.unresolved = DocDelete(@, match_id),
                              !.resolved = DocSet(@, ResolvedData(match_id, bet_info, outcome))]]

\* Mutant of cleanup_old_matches: an old document is deleted without the look
\* into unresolved_bets.
cleanup_old_matches_Unchecked(s) ==
    [s EXCEPT !.tracked = {d \in @ : d.last_update # "old"}]

cleanup_old_matches(s) ==
    LET old == {d \in s.tracked : d.last_update = "old"}
        gone == {d \in old : ~Exists(s.unresolved, d.id)}
    IN  [s EXCEPT !.tracked = @ \ gone]

(***************************************************************************)
(* Execution context of one handler run: the store as written so far, the  *)
(* notifications sent so far, the number of effects (store writes and      *)
(* notifications) the run may still perform before the process dies or a   *)
(* store write raises, whether the run has ended (return, exception or     *)
(* crash), and whether a store operation of the run has failed (what the   *)
(* store client logs as an error).                                         *)
(***************************************************************************)
Begin(s, budget) ==
    [s |-> s, notes |-> <<>>, left |-> budget, halted |-> FALSE, failed |-> FALSE]

Read(c, op) == IF op \in c.s.failing /\ ~c.halted THEN [c EXCEPT !.failed = TRUE] ELSE c

Write(c, s2) ==
    IF c.halted THEN c
    ELSE IF c.left = 0 THEN [c EXCEPT !.halted = TRUE, !.failed = TRUE]
    ELSE [c EXCEPT !.s = s2, !.left = @ - 1]

WriteTx(c, r) ==
    IF c.halted THEN c
    ELSE IF c.left = 0 \/ ~r.ok THEN [c EXCEPT !.halted = TRUE, !.failed = TRUE]
    ELSE [c EXCEPT !.s = r.s, !.left = @ - 1]

\* A send_telegram call whose attempts all failed: the call is made, nothing
\* is delivered.
Undelivered(message) == "undelivered:" \o message

send_telegram(c, message) ==
    IF c.halted THEN c
    ELSE IF c.left = 0 THEN [c EXCEPT !.halted = TRUE]
    ELSE [c EXCEPT !.notes = Append(@, IF "send_telegram" \in c.s.failing
                                       THEN Undelivered(message) ELSE message),
                   !.left = @ - 1]

Return(c) == [c EXCEPT !.halted = TRUE]

(***************************************************************************)
(* Lifecycle                                                               *)
(***************************************************************************)
\* Mutant of should_process_match: the elapsed minute is not looked at.
should_process_match_AnyMinute(fixture_status, elapsed_time) ==
    Upper(fixture_status) \in {"LIVE", "HT", "1H", "2H"}

should_process_match(fixture_status, elapsed_time) ==
    Upper(fixture_status) \in {"LIVE", "HT", "1H", "2H"} /\ elapsed_time # NoElapsed

default_state ==
    [k \in TrackedKeys |->
        CASE k \in {"bet36_placed", "result36_checked", "bet80_placed", "bet80_resolved"} -> "False"
          [] k = "last_update" -> "fresh"
          [] OTHER -> None]

initialize_match_state(c, match_id) ==
    Write(c, update_tracked_match(c.s, match_id, default_state))

AcceptedScores == {"0-0", "1-1", "2-2", "3-3"}

\* Mutant of InWindow36: the bounds of the window are exclusive.
InWindow36_Exclusive(elapsed) == 35 < elapsed /\ elapsed < 37

InWindow36(elapsed) == 35 <= elapsed /\ elapsed <= 37

InWindow80(elapsed) == 79 <= elapsed /\ elapsed <= 81

RegularBet(fixture_id, current_score) ==
    [id |-> fixture_id, bet_type |-> "regular", initial_score |-> current_score,
     score36 |-> Absent, ht_score |-> Absent, score80 |-> Absent]

ChaseBet(fixture_id, state, current_score) ==
    [id |-> fixture_id, bet_type |-> "chase", initial_score |-> current_score,
     score36 |-> state.score36, ht_score |-> current_score, score80 |-> current_score]

\* Mutant of Fires36: the persisted 36_bet_placed flag is not consulted.
Fires36_IgnoresFlag(state, status, elapsed) ==
    Upper(status) = "1H" /\ InWindow36(elapsed)

Fires36(state, status, elapsed) ==
    Upper(status) = "1H" /\ InWindow36(elapsed) /\ Falsy(state.bet36_placed)

\* Mutant of Block36: a score outside the accepted patterns leaves the state
\* unmarked, so the window is entered again.
Block36_SkipUnmarked(c, state, fixture_id, status, elapsed, current_score) ==
    IF c.halted \/ ~Fires36(state, status, elapsed) THEN c
    ELSE IF current_score \in AcceptedScores
         THEN send_telegram(
                  WriteTx(c, add_unresolved_bet(c.s, fixture_id,
                                 RegularBet(fixture_id, current_score),
                                 [bet36_placed |-> "True", score36 |-> current_score,
                                  last_update |-> "fresh"])),
                  "bet36")
         ELSE c

\* Mutant of Block36: the decision and the tracked updates are written by two
\* separate writes instead of one transaction.
Block36_TwoWrites(c, state, fixture_id, status, elapsed, current_score) ==
    IF c.halted \/ ~Fires36(state, status, elapsed) THEN c
    ELSE LET upd == [bet36_placed |-> "True", score36 |-> current_score,
                     last_update |-> "fresh"]
         IN  IF current_score \in AcceptedScores
             THEN LET c1 == Write(c, [c.s EXCEPT !.unresolved =
                                         DocSet(@, RegularBet(fixture_id, current_score))])
                      c2 == Write(c1, update_tracked_match(c1.s, fixture_id, upd))
                  IN  send_telegram(c2, "bet36")
             ELSE Write(c, update_tracked_match(c.s, fixture_id, upd))

Block36(c, state, fixture_id, status, elapsed, current_score) ==
    IF c.halted \/ ~Fires36(state, status, elapsed) THEN c
    ELSE LET upd == [bet36_placed |-> "True", score36 |-> current_score,
                     last_update |-> "fresh"]
         IN  IF current_score \in AcceptedScores
             THEN send_telegram(
                      WriteTx(c, add_unresolved_bet(c.s, fixture_id,
                                     RegularBet(fixture_id, current_score), upd)),
                      "bet36")
             ELSE Write(c, update_tracked_match(c.s, fixture_id, upd))

FiresHT(state, status) ==
    Upper(status) = "HT" /\ Truthy(state.bet36_placed) /\ Falsy(state.result36_checked)

\* Mutant of HTOutcome: the half-time score is compared with the ht_score
\* field instead of 36_score.
HTOutcome_AgainstHT(current_score, state) ==
    IF current_score = state.ht_score THEN "win" ELSE "loss"

HTOutcome(current_score, state) ==
    IF current_score = state.score36 THEN "win" ELSE "loss"

BlockHT(c, state, fixture_id, status, current_score) ==
    IF c.halted \/ ~FiresHT(state, status) THEN c
    ELSE LET c1 == Write(c, update_tracked_match(c.s, fixture_id,
                              [ht_score |-> current_score, last_update |-> "fresh"]))
             regular == get_unresolved_bets(c1.s, "regular")
             c1r == Read(c1, "get_unresolved_bets")
         IN  IF c1.halted THEN c1
             ELSE IF ~Exists(regular, fixture_id)
             THEN Return(Write(c1r, update_tracked_match(c1r.s, fixture_id,
                              [result36_checked |-> "True", last_update |-> "fresh"])))
             ELSE LET unresolved_bet == Doc(regular, fixture_id)
                      outcome == HTOutcome(current_score, state)
                      c2 == send_telegram(c1r, "ht_" \o outcome)
                      c3 == WriteTx(c2, move_to_resolved(c2.s, fixture_id, unresolved_bet, outcome))
                  IN  Write(c3, update_tracked_match(c3.s, fixture_id,
                              [result36_checked |-> "True",
                               bet36_won |-> PyBool(outcome = "win"),
                               last_update |-> "fresh"]))

\* Mutant of Fires80: an unknown 36_bet_won counts as a lost primary bet.
Fires80_UnknownIsLost(state, status, elapsed) ==
    /\ Upper(status) = "2H"
    /\ InWindow80(elapsed)
    /\ Falsy(state.bet80_placed)
    /\ Falsy(state.bet36_won)

\* Mutant of Fires80: the persisted 80_bet_placed flag is not consulted.
Fires80_IgnoresFlag(state, status, elapsed) ==
    /\ Upper(status) = "2H"
    /\ InWindow80(elapsed)
    /\ state.bet36_won = "False"

\* Mutant of Fires80: the half-time result is not consulted at all.
Fires80_WithoutResult(state, status, elapsed) ==
    /\ Upper(status) = "2H"
    /\ InWindow80(elapsed)
    /\ Falsy(state.bet80_placed)

Fires80(state, status, elapsed) ==
    /\ Upper(status) = "2H"
    /\ InWindow80(elapsed)
    /\ Falsy(state.bet80_placed)
    /\ state.bet36_won = "False"

Block80(c, state, fixture_id, status, elapsed, current_score) ==
    IF c.halted \/ ~Fires80(state, status, elapsed) THEN c
    ELSE send_telegram(
             WriteTx(c, add_unresolved_bet(c.s, fixture_id,
                            ChaseBet(fixture_id, state, current_score),
                            [bet80_placed |-> "True", score80 |-> current_score,
                             last_update |-> "fresh"])),
             "chase80")

process_match(s, budget, fixture_id, match) ==
    LET c0 == Begin(s, budget)
        status == match.status
        elapsed == match.elapsed
        current_score == ScoreString(match.home, match.away)
    IN  IF ~should_process_match(status, elapsed) THEN c0
        ELSE LET tr == get_tracked_match(s, fixture_id)
                 state == IF tr.found THEN tr.dict ELSE default_state
                 c0r == Read(c0, "get_tracked_match")
                 c1 == IF tr.found THEN c0r ELSE initialize_match_state(c0r, fixture_id)
                 c2 == Block36(c1, state, fixture_id, status, elapsed, current_score)
                 c3 == BlockHT(c2, state, fixture_id, status, current_score)
             IN  Block80(c3, state, fixture_id, status, elapsed, current_score)

(***************************************************************************)
(* Resolution engine                                                       *)
(***************************************************************************)
NotFetched == [found |-> FALSE, status |-> "", home |-> NoGoals, away |-> NoGoals]

ChaseScore(bet_info) == IF bet_info.score80 = Absent THEN "" ELSE bet_info.score80

\* Mutant of ChaseOutcome: the polarity is the other one, a chase wins when
\* the final score differs from the score at the chase checkpoint.
ChaseOutcome_Reversed(final_score, chase_score) ==
    IF final_score = chase_score THEN "loss" ELSE "win"

ChaseOutcome(final_score, chase_score) ==
    IF final_score = chase_score THEN "win" ELSE "loss"

\* Mutant of DetermineOutcome: a decision of an unknown kind is settled as a
\* lost chase instead of an error.
DetermineOutcome_UnknownIsLoss(bet_info, final_score) ==
    IF bet_info.bet_type = "regular"
    THEN [outcome |-> "error", message |-> "ft_regular_unresolved"]
    ELSE LET outcome == ChaseOutcome(final_score, ChaseScore(bet_info))
         IN  IF bet_info.bet_type = "chase" \/ outcome = "loss"
             THEN [outcome |-> outcome, message |-> "chase_" \o outcome]
             ELSE [outcome |-> "error", message |-> "ft_unknown_bet_type"]

DetermineOutcome(bet_info, final_score) ==
    IF bet_info.bet_type = "regular"
    THEN [outcome |-> "error", message |-> "ft_regular_unresolved"]
    ELSE IF bet_info.bet_type = "chase"
    THEN LET outcome == ChaseOutcome(final_score, ChaseScore(bet_info))
         IN  [outcome |-> outcome, message |-> "chase_" \o outcome]
    ELSE [outcome |-> "error", message |-> "ft_unknown_bet_type"]

\* Mutant of ResolveBet: a regular decision is skipped by the resolution loop.
ResolveBet_SkipsRegular(s, budget, bet_info, match_data) ==
    LET c0 == Begin(s, budget)
    IN  IF ~match_data.found \/ match_data.status # "FT" \/ bet_info.bet_type = "regular"
        THEN c0
        ELSE LET d == DetermineOutcome(bet_info, ScoreString(match_data.home, match_data.away))
                 c1 == send_telegram(c0, d.message)
             IN  WriteTx(c1, move_to_resolved(c1.s, bet_info.id, bet_info, d.outcome))

\* Mutant of ResolveBet: the fetched status is not looked at.
ResolveBet_IgnoresStatus(s, budget, bet_info, match_data) ==
    LET c0 == Begin(s, budget)
    IN  IF ~match_data.found THEN c0
        ELSE LET final_score == ScoreString(match_data.home, match_data.away)
                 d == DetermineOutcome(bet_info, final_score)
                 c1 == send_telegram(c0, d.message)
             IN  WriteTx(c1, move_to_resolved(c1.s, bet_info.id, bet_info, d.outcome))

\* Mutant of ResolveBet: the decision is archived before the notification is
\* sent.
ResolveBet_ArchivesFirst(s, budget, bet_info, match_data) ==
    LET c0 == Begin(s, budget)
    IN  IF ~match_data.found THEN c0
        ELSE IF match_data.status # "FT" THEN c0
        ELSE LET final_score == ScoreString(match_data.home, match_data.away)
                 d == DetermineOutcome(bet_info, final_score)
                 c1 == WriteTx(c0, move_to_resolved(c0.s, bet_info.id, bet_info, d.outcome))
             IN  send_telegram(c1, d.message)

ResolveBet(s, budget, bet_info, match_data) ==
    LET c0 == Begin(s, budget)
    IN  IF ~match_data.found THEN c0
        ELSE IF match_data.status # "FT" THEN c0
        ELSE LET final_score == ScoreString(match_data.home, match_data.away)
                 d == DetermineOutcome(bet_info, final_score)
                 c1 == send_telegram(c0, d.message)
             IN  WriteTx(c1, move_to_resolved(c1.s, bet_info.id, bet_info, d.outcome))

RECURSIVE ResolveLoop(_, _, _, _, _)
ResolveLoop(s, notes, todo, fixtures, budget) ==
    IF todo = {} THEN [s |-> s, notes |-> notes]
    ELSE LET bet_info == CHOOSE b \in todo : TRUE
             c == ResolveBet(s, budget[bet_info.id], bet_info, fixtures[bet_info.id])
         IN  ResolveLoop(c.s, [notes EXCEPT ![bet_info.id] = c.notes],
                         todo \ {bet_info}, fixtures, budget)

NoNotes == [f \in Fixtures |-> <<>>]

check_unresolved_bets(s, fixtures, budget) ==
    ResolveLoop(s, NoNotes, get_unresolved_bets(s, None), fixtures, budget)

(***************************************************************************)
(* Feed requests.  A response is ok (with its payload), rate_limited (HTTP *)
(* 429, with or without a Retry-After header) or error (a failed request   *)
(* or an error status).  responses[i] is what the feed answers to the i-th *)
(* request of the call.  Each call returns, besides its result, the log of *)
(* its requests: the request, the kind of the response and the seconds     *)
(* slept after it.                                                         *)
(***************************************************************************)
max_retries == 3

chunk_size == 20

DefaultRetryAfter == 60

NoHeader == -1

handle_api_rate_limit(response) ==
    IF response.kind = "rate_limited"
    THEN [limited |-> TRUE,
          slept |-> IF response.retry_after = NoHeader THEN DefaultRetryAfter
                    ELSE response.retry_after]
    ELSE [limited |-> FALSE, slept |-> 0]

LogEntry(request, response, slept) ==
    [request |-> request, kind |-> response.kind,
     retry_after |-> response.retry_after, slept |-> slept]

RECURSIVE LiveAttempt(_, _, _)
LiveAttempt(responses, attempt, log) ==
    IF attempt > max_retries
    THEN [result |-> "None", matches |-> {}, log |-> log]
    ELSE LET response == responses[attempt]
             rl == handle_api_rate_limit(response)
         IN  IF rl.limited
             THEN LiveAttempt(responses, attempt + 1,
                              Append(log, LogEntry("live", response, rl.slept)))
             ELSE IF response.kind = "error"
             THEN IF attempt < max_retries
                  THEN LiveAttempt(responses, attempt + 1,
                                   Append(log, LogEntry("live", response, attempt * 5)))
                  ELSE [result |-> "list", matches |-> {},
                        log |-> Append(log, LogEntry("live", response, 0))]
             ELSE [result |-> "list", matches |-> response.payload,
                   log |-> Append(log, LogEntry("live", response, 0))]

get_live_matches(responses) == LiveAttempt(responses, 1, <<>>)

Min(a, b) == IF a < b THEN a ELSE b

NoFixtures == [f \in Fixtures |-> NotFetched]

RECURSIVE FetchChunks(_, _, _, _, _)
FetchChunks(match_ids, responses, k, fixtures, log) ==
    IF (k - 1) * chunk_size >= Len(match_ids)
    THEN [fixtures |-> fixtures, log |-> log]
    ELSE LET chunk == SubSeq(match_ids, (k - 1) * chunk_size + 1,
                             Min(k * chunk_size, Len(match_ids)))
             response == responses[k]
             rl == handle_api_rate_limit(response)
         IN  IF rl.limited
             THEN FetchChunks(match_ids, responses, k + 1, fixtures,
                              Append(log, LogEntry(chunk, response, rl.slept)))
             ELSE IF response.kind = "error"
             THEN FetchChunks(match_ids, responses, k + 1, fixtures,
                              Append(log, LogEntry(chunk, response, 0)))
             ELSE FetchChunks(match_ids, responses, k + 1,
                              [f \in Fixtures |->
                                  IF response.payload[f].found THEN response.payload[f]
                                  ELSE fixtures[f]],
                              Append(log, LogEntry(chunk, response, 0)))

get_fixtures_by_ids(match_ids, responses) ==
    FetchChunks(match_ids, responses, 1, NoFixtures, <<>>)

RECURSIVE Keys(_)
Keys(ids) ==
    IF ids = {} THEN <<>>
    ELSE LET id == CHOOSE x \in ids : \A y \in ids : x <= y
         IN  <<id>> \o Keys(ids \ {id})

(***************************************************************************)
(* Feed: a fixture's phase only moves forward; a live snapshot reports a   *)
(* status code of the current phase with any minute and any goal counts;   *)
(* the finished-fixtures lookup answers for any subset of the ids asked.   *)
(***************************************************************************)
StatusCodes(p) ==
    CASE p = "NS" -> {"NS"}
      [] p = "1H" -> {"1H", "LIVE"}
      [] p = "HT" -> {"HT", "ht"}
      [] p = "2H" -> {"2H", "2h"}
      [] p = "FT" -> {"FT"}

ElapsedValues(p) ==
    CASE p = "NS" -> {NoElapsed}
      [] p = "1H" -> {NoElapsed, 34, 35, 36, 37, 38}
      [] p = "HT" -> {NoElapsed, 45}
      [] p = "2H" -> {NoElapsed, 78, 79, 80, 81, 82}
      [] p = "FT" -> {90}

GoalPairs == {<<NoGoals, NoGoals>>} \cup ((0..MaxGoals) \X (0..MaxGoals))

Snapshots(p) ==
    {[status |-> st, elapsed |-> e, home |-> g[1], away |-> g[2]] :
        st \in StatusCodes(p), e \in ElapsedValues(p), g \in GoalPairs}

NextPhase(p) ==
    CASE p = "NS" -> "1H"
      [] p = "1H" -> "HT"
      [] p = "HT" -> "2H"
      [] p = "2H" -> "FT"
      [] OTHER -> p

PendingIds == {d.id : d \in unresolved_bets}

FixtureAnswers(f) ==
    IF f \notin PendingIds THEN {NotFetched}
    ELSE {NotFetched} \cup
         {[found |-> TRUE, status |-> st, home |-> g[1], away |-> g[2]] :
             st \in StatusCodes(phase[f]), g \in GoalPairs}

FinishedAnswers(f) ==
    IF f \in PendingIds /\ phase[f] = "FT"
    THEN {[found |-> TRUE, status |-> "FT", home |-> g[1], away |-> g[2]] : g \in GoalPairs}
    ELSE {NotFetched}

AllFixtures(answers) ==
    {fx \in [Fixtures -> UNION {answers[f] : f \in Fixtures}] :
        \A f \in Fixtures : fx[f] \in answers[f]}

(***************************************************************************)
(* One bot cycle                                                           *)
(***************************************************************************)
RECURSIVE ProcessLoop(_, _, _)
ProcessLoop(s, notes, live_matches) ==
    IF live_matches = {} THEN [s |-> s, notes |-> notes]
    ELSE LET m == CHOOSE x \in live_matches : TRUE
             c == process_match(s, NoCrash, m.id, m.match)
         IN  ProcessLoop(c.s, [notes EXCEPT ![m.id] = @ \o c.notes],
                         live_matches \ {m})

run_bot_cycle(s, live_responses, fixture_responses, cleanup_hour) ==
    LET live == get_live_matches(live_responses)
    IN  IF live.result = "None"
        THEN [s |-> s, notes |-> NoNotes, returned |-> "False",
              live_result |-> live.result, resolution_ran |-> FALSE]
        ELSE LET p == ProcessLoop(s, NoNotes, live.matches)
                 unresolved == get_unresolved_bets(p.s, None)
                 fixtures ==
                     IF unresolved = {} THEN NoFixtures
                     ELSE get_fixtures_by_ids(Keys({d.id : d \in unresolved}),
                                              fixture_responses).fixtures
                 r == check_unresolved_bets(p.s, fixtures, [f \in Fixtures |-> NoCrash])
                 s3 == IF cleanup_hour THEN cleanup_old_matches(r.s) ELSE r.s
             IN  [s |-> s3, notes |-> [f \in Fixtures |-> p.notes[f] \o r.notes[f]],
                  returned |-> "True", live_result |-> live.result,
                  resolution_ran |-> TRUE]

NoCycle == [returned |-> "none", live_result |-> "none", resolution_ran |-> FALSE]

(***************************************************************************)
(* main: one iteration of its loop.  success is what run_bot_cycle         *)
(* returned; health is what health_check does in the iteration: nothing,   *)
(* the status message of the half hour, or an exception (its import of     *)
(* psutil or its reading of the process failing), which main catches.      *)
(***************************************************************************)
max_errors == 5

NotSlept == 0

HealthOutcomes == {"quiet", "status", "raises"}

health_check(health) == IF health = "status" THEN <<"status">> ELSE <<>>

\* Mutant of main: the loop is left when the alert has been sent.
main_StopsAfterAlert(errors, success, health) ==
    LET counted == IF success THEN 0 ELSE errors + 1
        alert == ~success /\ counted >= max_errors
        sent_alert == IF alert THEN <<"critical_alert">> ELSE <<>>
    IN  [consecutive_errors |-> IF alert THEN 0 ELSE counted,
         sleep_time |-> IF success THEN 90 ELSE Min(300, 30 * counted),
         notes |-> sent_alert \o health_check(health),
         pc |-> IF alert THEN "exited" ELSE "loop"]

main(errors, success, health) ==
    LET counted == IF success THEN 0 ELSE errors + 1
        alert == ~success /\ counted >= max_errors
        sent_alert == IF alert THEN <<"critical_alert">> ELSE <<>>
        after == IF alert THEN 0 ELSE counted
    IN  IF health = "raises"
        THEN [consecutive_errors |-> after, sleep_time |-> 60,
              notes |-> Append(sent_alert, "critical_error"), pc |-> "loop"]
        ELSE [consecutive_errors |-> after,
              sleep_time |-> IF success THEN 90 ELSE Min(300, 30 * counted),
              notes |-> sent_alert \o health_check(health), pc |-> "loop"]

(***************************************************************************)
(* What the feed may answer to the requests of one cycle.                  *)
(***************************************************************************)
RetryAfterValues == {NoHeader, 30}

LiveLists ==
    {{}} \cup UNION {{ {[id |-> f, match |-> m]} : m \in Snapshots(phase[f])} : f \in Fixtures}

Failures(payload, retry_afters) ==
    {[kind |-> "error", retry_after |-> NoHeader, payload |-> payload]}
        \cup {[kind |-> "rate_limited", retry_after |-> ra, payload |-> payload] :
                 ra \in retry_afters}

OkResponses(payloads) ==
    {[kind |-> "ok", retry_after |-> NoHeader, payload |-> p] : p \in payloads}

\* The scripts of n responses: failures up to the first ok response; nothing
\* is requested after it, so what follows it is a fixed filler.
RECURSIVE Scripts(_, _, _, _)
Scripts(n, payloads, empty, retry_afters) ==
    IF n = 0 THEN {<<>>}
    ELSE {<<r>> \o tail : r \in Failures(empty, retry_afters),
                          tail \in Scripts(n - 1, payloads, empty, retry_afters)}
         \cup {<<r>> \o [i \in 1..(n - 1) |->
                             [kind |-> "error", retry_after |-> NoHeader, payload |-> empty]] :
                  r \in OkResponses(payloads)}

\* The delay a rate-limit response asks for changes nothing in the store, so
\* the cycles are run against responses without the header.
LiveScripts == Scripts(max_retries, LiveLists, {}, {NoHeader})

CycleFixtureAnswers(f) ==
    {NotFetched} \cup
    {[found |-> TRUE, status |-> st, home |-> g[1], away |-> g[2]] :
        st \in StatusCodes(phase[f]), g \in GoalPairs}

MaxChunks == (NumFixtures + chunk_size - 1) \div chunk_size

FixtureResponses(retry_afters) ==
    Failures(NoFixtures, retry_afters)
        \cup OkResponses(AllFixtures([f \in Fixtures |-> CycleFixtureAnswers(f)]))

FixtureScripts == [1..MaxChunks -> FixtureResponses({NoHeader})]

Commit(s, notes) ==
    /\ tracked_matches' = s.tracked
    /\ unresolved_bets' = s.unresolved
    /\ resolved_bets' = s.resolved
    /\ sent' = notes
    /\ UNCHANGED <<last_cycle, driver>>

Init ==
    /\ tracked_matches = {}
    /\ unresolved_bets = {}
    /\ resolved_bets = {}
    /\ phase = [f \in Fixtures |-> "NS"]
    /\ sent = NoNotes
    /\ last_cycle = NoCycle
    /\ consecutive_errors = 0
    /\ sleep_time = NotSlept
    /\ main_sent = <<>>
    /\ main_pc = "loop"

Advance(f) ==
    /\ phase[f] # "FT"
    /\ phase' = [phase EXCEPT ![f] = NextPhase(@)]
    /\ sent' = NoNotes
    /\ UNCHANGED <<tracked_matches, unresolved_bets, resolved_bets, last_cycle, driver>>

Age(f) ==
    /\ phase[f] = "FT"
    /\ Exists(tracked_matches, f)
    /\ Doc(tracked_matches, f).last_update = "fresh"
    /\ tracked_matches' = DocMerge(tracked_matches, f, [last_update |-> "old"])
    /\ sent' = NoNotes
    /\ UNCHANGED <<unresolved_bets, resolved_bets, phase, last_cycle, driver>>

RunProcessMatch(f, budget) ==
    \E match \in Snapshots(phase[f]) :
        LET c == process_match(Store, budget, f, match)
        IN  /\ Commit(c.s, [NoNotes EXCEPT ![f] = c.notes])
            /\ UNCHANGED phase

ProcessMatch(f) == RunProcessMatch(f, NoCrash)

ProcessMatchCrash(f) == \E budget \in CrashPoints : RunProcessMatch(f, budget)

ProcessMatchFaulty(f) ==
    \E match \in Snapshots(phase[f]), failing \in SUBSET ExternalOps,
       budget \in CrashPoints \cup {NoCrash} :
        LET c == process_match(StoreFailing(failing), budget, f, match)
        IN  /\ failing # {}
            /\ Commit(c.s, [NoNotes EXCEPT ![f] = c.notes])
            /\ UNCHANGED phase

RunCheckUnresolvedBets(fixtures, budget) ==
    LET r == check_unresolved_bets(Store, fixtures, budget)
    IN  /\ Commit(r.s, r.notes)
        /\ UNCHANGED phase

CheckUnresolvedBets ==
    \E fixtures \in AllFixtures([f \in Fixtures |-> FixtureAnswers(f)]) :
        RunCheckUnresolvedBets(fixtures, [f \in Fixtures |-> NoCrash])

CheckUnresolvedBetsCrash ==
    \E fixtures \in AllFixtures([f \in Fixtures |-> FixtureAnswers(f)]), dies \in SUBSET PendingIds :
        /\ dies # {}
        /\ RunCheckUnresolvedBets(fixtures, [f \in Fixtures |-> IF f \in dies THEN 1 ELSE NoCrash])

CheckUnresolvedBetsFaulty ==
    \E fixtures \in AllFixtures([f \in Fixtures |-> FixtureAnswers(f)]),
       failing \in SUBSET ExternalOps, dies \in SUBSET PendingIds :
        LET r == check_unresolved_bets(StoreFailing(failing), fixtures,
                     [f \in Fixtures |-> IF f \in dies THEN 1 ELSE NoCrash])
        IN  /\ failing # {}
            /\ Commit(r.s, r.notes)
            /\ UNCHANGED phase

\* A pending decision of a kind this program does not place, written to
\* unresolved_bets by another writer; check_unresolved_bets provides for it.
ForeignBetTypes == {"other"}

ForeignBet(f, bet_type) ==
    [id |-> f, bet_type |-> bet_type, initial_score |-> "0-0",
     score36 |-> Absent, ht_score |-> Absent, score80 |-> Absent]

ForeignDecision(f) ==
    /\ ~Exists(unresolved_bets, f)
    /\ \E bet_type \in ForeignBetTypes :
           unresolved_bets' = DocSet(unresolved_bets, ForeignBet(f, bet_type))
    /\ sent' = NoNotes
    /\ UNCHANGED <<tracked_matches, resolved_bets, phase, last_cycle, driver>>

CheckFinished ==
    /\ \E f \in PendingIds : phase[f] = "FT"
    /\ \E fixtures \in AllFixtures([f \in Fixtures |-> FinishedAnswers(f)]) :
           RunCheckUnresolvedBets(fixtures, [f \in Fixtures |-> NoCrash])

Cleanup ==
    /\ Commit(cleanup_old_matches(Store), NoNotes)
    /\ UNCHANGED phase

RunBotCycle ==
    \E live_responses \in LiveScripts, fixture_responses \in FixtureScripts,
       cleanup_hour \in BOOLEAN :
        \E r \in {run_bot_cycle(Store, live_responses, fixture_responses, cleanup_hour)} :
            /\ tracked_matches' = r.s.tracked
            /\ unresolved_bets' = r.s.unresolved
            /\ resolved_bets' = r.s.resolved
            /\ sent' = r.notes
            /\ last_cycle' = [returned |-> r.returned, live_result |-> r.live_result,
                              resolution_ran |-> r.resolution_ran]
            /\ UNCHANGED <<phase, driver>>

\* The live lists of the driver's cycles: one snapshot inside each checkpoint
\* with its goals reported.
MainLiveLists ==
    {l \in LiveLists :
        \A m \in l : m.match.elapsed \in {36, 45, 80} /\ m.match.home # NoGoals}

MainLiveScripts == Scripts(max_retries, MainLiveLists, {}, {NoHeader})

MainIteration ==
    /\ main_pc = "loop"
    /\ \E live_responses \in MainLiveScripts, fixture_responses \in FixtureScripts,
          cleanup_hour \in BOOLEAN :
           \E r \in {run_bot_cycle(Store, live_responses, fixture_responses, cleanup_hour)} :
               \E health \in HealthOutcomes :
                   \E m \in {main(consecutive_errors, r.returned = "True", health)} :
                       /\ tracked_matches' = r.s.tracked
                       /\ unresolved_bets' = r.s.unresolved
                       /\ resolved_bets' = r.s.resolved
                       /\ sent' = r.notes
                       /\ last_cycle' = [returned |-> r.returned,
                                         live_result |-> r.live_result,
                                         resolution_ran |-> r.resolution_ran]
                       /\ consecutive_errors' = m.consecutive_errors
                       /\ sleep_time' = m.sleep_time
                       /\ main_sent' = m.notes
                       /\ main_pc' = m.pc
                       /\ UNCHANGED phase

Next ==
    \/ \E f \in Fixtures : Advance(f)
    \/ \E f \in Fixtures : Age(f)
    \/ \E f \in Fixtures : ProcessMatch(f)
    \/ CheckUnresolvedBets
    \/ Cleanup

NextCrash ==
    \/ Next
    \/ \E f \in Fixtures : ProcessMatchCrash(f)
    \/ CheckUnresolvedBetsCrash

NextFaults ==
    \/ NextCrash
    \/ \E f \in Fixtures : ProcessMatchFaulty(f)
    \/ CheckUnresolvedBetsFaulty

NextCycle ==
    \/ \E f \in Fixtures : Advance(f)
    \/ \E f \in Fixtures : Age(f)
    \/ RunBotCycle

NextMain ==
    \/ \E f \in Fixtures : Advance(f)
    \/ \E f \in Fixtures : Age(f)
    \/ MainIteration

NextForeign ==
    \/ Next
    \/ \E f \in Fixtures : ForeignDecision(f)

Spec == Init /\ [][Next]_vars

SpecCrash == Init /\ [][NextCrash]_vars

SpecLive == Init /\ [][NextCrash]_vars /\ WF_vars(CheckFinished)

SpecFaults == Init /\ [][NextFaults]_vars

SpecCycle == Init /\ [][NextCycle]_vars

SpecForeign == Init /\ [][NextForeign]_vars

SpecMain == Init /\ [][NextMain]_vars

(***************************************************************************)
(* Vocabulary of the properties                                            *)
(***************************************************************************)
AnySnapshot == UNION {Snapshots(Phases[i]) : i \in DOMAIN Phases}

Field(s, f, k) == get_tracked_match(s, f).dict[k]

Open(s, f, bet_type) == {d \in s.unresolved : d.id = f /\ d.bet_type = bet_type}

Placed(s1, s2, f, bet_type) == Open(s2, f, bet_type) \ Open(s1, f, bet_type)

PlacementNotes(notes) == SelectSeq(notes, LAMBDA m : m \in {"bet36", "chase80"})

Outcomes == {"win", "loss", "error"}

\* C1: running process_match twice on the same snapshot leaves the store as
\* the first run left it; the second run writes nothing and sends nothing, and
\* the two runs place at most one decision and send at most one placement
\* notification.  Nothing but the persisted store is handed to the second run.
IdempotentCheckpoint ==
    \A f \in Fixtures, match \in AnySnapshot :
        LET r1 == process_match(Store, NoCrash, f, match)
            r2 == process_match(r1.s, NoCrash, f, match)
        IN  /\ r2.s = r1.s
            /\ r2.notes = <<>>
            /\ Len(PlacementNotes(r1.notes \o r2.notes)) <= 1
            /\ Cardinality(Placed(Store, r1.s, f, "regular")
                           \cup Placed(Store, r1.s, f, "chase")) <= 1

IdempotentCheckpointWitness ==
    \E f \in Fixtures :
        /\ sent[f] = <<"bet36">>
        /\ Open(Store, f, "regular") # {}
        /\ Field(Store, f, "bet36_placed") = "True"

\* C2: once 36_bet_placed or 80_bet_placed is true in the persisted state of a
\* fixture, it is true in every later state.
EvaluatedFlagsMonotonic ==
    [][\A f \in Fixtures, k \in {"bet36_placed", "bet80_placed"} :
          Field(Store, f, k) = "True" => Field(Store, f, k)' = "True"]_vars

\* C3: a decision leaves unresolved_bets only in a step that writes its
\* resolved_bets record, a resolved_bets record is written only in a step that
\* removes the decision it archives from unresolved_bets, and move_to_resolved
\* for a decision that is no longer pending fails and writes nothing; this
\* holds also when a run dies between send_telegram and move_to_resolved.
ArchiveStep ==
    \A f \in Fixtures :
        /\ \A d \in unresolved_bets :
              (d.id = f /\ d \notin unresolved_bets')
                  => \E o \in Outcomes : ResolvedData(f, d, o) \in resolved_bets'
        /\ \A r \in resolved_bets' \ resolved_bets :
              r.id = f => /\ r.bet \in unresolved_bets
                          /\ r.bet \notin unresolved_bets'
                          /\ r.outcome \in Outcomes
                          /\ ~Exists(unresolved_bets', f)

StaleMoveFails ==
    \A r \in resolved_bets, o \in Outcomes :
        ~Exists(unresolved_bets, r.id)
            => move_to_resolved(Store, r.id, r.bet, o) = [ok |-> FALSE, s |-> Store]

AtomicArchive == []StaleMoveFails /\ [][ArchiveStep]_vars

AtomicArchiveWitness ==
    \E f \in Fixtures :
        /\ phase[f] = "FT"
        /\ sent[f] # <<>>
        /\ Exists(unresolved_bets, f)

\* C4: a decision that is pending while its fixture is finished is eventually
\* archived with outcome win, loss or error, provided the cycles in which the
\* feed reports the fixture finished and the store succeeds keep coming.
Archived(f) ==
    /\ ~Exists(unresolved_bets, f)
    /\ \E r \in resolved_bets : r.id = f /\ r.outcome \in Outcomes

ResolutionCompleteness ==
    \A f \in Fixtures : (phase[f] = "FT" /\ Exists(unresolved_bets, f)) ~> Archived(f)

ResolutionCompletenessWitness ==
    \E f \in Fixtures, r \in resolved_bets :
        /\ r.id = f
        /\ phase[f] = "FT"
        /\ r.outcome = "error"
        /\ sent[f] = <<"ft_regular_unresolved">>

\* C5: a chase decision is placed only in a step whose pre-state has the
\* persisted 36_bet_won exactly false (not true, not unknown), and once the
\* persisted 36_bet_won of a fixture is true, no chase decision of that fixture
\* is placed, open or archived at any later time.
ChasePlacedStep(f) ==
    \/ Placed(Store, Store', f, "chase") # {}
    \/ \E i \in DOMAIN sent'[f] : sent'[f][i] = "chase80"

NoChase(f) ==
    /\ Open(Store, f, "chase") = {}
    /\ \A i \in DOMAIN sent[f] : sent[f][i] # "chase80"
    /\ \A r \in resolved_bets : r.id = f => r.bet.bet_type # "chase"

ChaseIndependence ==
    /\ \A f \in Fixtures : [](Field(Store, f, "bet36_won") = "True" => []NoChase(f))
    /\ [][\A f \in Fixtures :
             ChasePlacedStep(f) => Field(Store, f, "bet36_won") = "False"]_vars

ChaseIndependenceWitness ==
    \E f \in Fixtures :
        /\ Field(Store, f, "bet36_won") = "True"
        /\ phase[f] = "2H"
        /\ sent[f] = <<>>
        /\ \E r \in resolved_bets : r.id = f /\ r.outcome = "win"

\* C6: for a fixture in its second half whose primary decision is archived
\* with outcome loss and whose 80_bet_placed is not yet true, process_match on
\* any second-half snapshot with minute 79..81 places exactly one chase decision holding the
\* current score as 80_score, sets 80_bet_placed and 80_score and sends the
\* chase notification; and a chase decision is placed only for a fixture that
\* has had no chase decision before.
LostAtHalfTime(f) ==
    \E r \in resolved_bets : r.id = f /\ r.bet.bet_type = "regular" /\ r.outcome = "loss"

ChaseFiresAfterLoss ==
    \A f \in Fixtures :
        (LostAtHalfTime(f) /\ phase[f] = "2H" /\ Field(Store, f, "bet80_placed") # "True")
            => \A match \in Snapshots(phase[f]) :
                   match.elapsed \in 79..81
                       => LET c == process_match(Store, NoCrash, f, match)
                              score == ScoreString(match.home, match.away)
                          IN  /\ Cardinality(Open(c.s, f, "chase")) = 1
                              /\ \A d \in Open(c.s, f, "chase") : d.score80 = score
                              /\ Field(c.s, f, "bet80_placed") = "True"
                              /\ Field(c.s, f, "score80") = score
                              /\ c.notes = <<"chase80">>

HalfTimeStability ==
    \A f \in Fixtures :
        (/\ Field(Store, f, "bet36_placed") = "True"
         /\ Field(Store, f, "result36_checked") # "True"
         /\ Open(Store, f, "regular") # {})
            => \A match \in Snapshots("HT") :
                   match.elapsed # NoElapsed
                       => LET c == process_match(Store, NoCrash, f, match)
                              d == CHOOSE b \in Open(Store, f, "regular") : TRUE
                              o == IF ScoreString(match.home, match.away)
                                          = Field(Store, f, "score36")
                                   THEN "win" ELSE "loss"
                          IN  /\ ResolvedData(f, d, o) \in c.s.resolved
                              /\ ~Exists(c.s.unresolved, f)
                              /\ Field(c.s, f, "result36_checked") = "True"
                              /\ Field(c.s, f, "bet36_won") = PyBool(o = "win")
                              /\ o = "loss" =>
                                    \A m2 \in Snapshots("2H") :
                                        m2.elapsed \in 79..81 =>
                                            Placed(c.s, process_match(c.s, NoCrash, f, m2).s,
                                                   f, "chase") # {}

HalfTimeStabilityWitness ==
    \E f \in Fixtures :
        /\ sent[f] = <<"ht_loss">>
        /\ LostAtHalfTime(f)
        /\ Field(Store, f, "result36_checked") = "True"
        /\ Field(Store, f, "bet36_won") = "False"

\* C8: a resolved_bets record, once written, is in resolved_bets unchanged in
\* every later state.
ArchiveWriteOnce == [][\A r \in resolved_bets : r \in resolved_bets']_vars

\* C9: for every fixture, unresolved_bets holds at most one open decision of
\* kind regular and at most one open decision of kind chase.
NoDuplicateDecisions ==
    \A f \in Fixtures :
        /\ Cardinality(Open(Store, f, "regular")) <= 1
        /\ Cardinality(Open(Store, f, "chase")) <= 1

NoDuplicateDecisionsWitness ==
    \E f \in Fixtures :
        /\ Cardinality(Open(Store, f, "chase")) = 1
        /\ LostAtHalfTime(f)

\* C10: for a fixture whose 36_bet_placed is not true, process_match places a
\* primary decision (and sends its notification) exactly when the status is
\* first half, the minute is 35, 36 or 37 and the score is 0-0, 1-1, 2-2 or
\* 3-3; a first-half snapshot with a minute outside 35..37 sets no checkpoint
\* flag, leaves unresolved_bets and resolved_bets alone and sends nothing.
WindowCorrectness ==
    \A f \in Fixtures :
        Field(Store, f, "bet36_placed") # "True"
            => \A match \in AnySnapshot :
                   LET c == process_match(Store, NoCrash, f, match)
                       expected == /\ match.status = "1H"
                                   /\ match.elapsed \in {35, 36, 37}
                                   /\ ScoreString(match.home, match.away)
                                          \in {"0-0", "1-1", "2-2", "3-3"}
                   IN  /\ Placed(Store, c.s, f, "regular") # {} <=> expected
                       /\ c.notes = <<"bet36">> <=> expected
                       /\ (match.status = "1H" /\ match.elapsed \notin {35, 36, 37})
                              => /\ Field(c.s, f, "bet36_placed") # "True"
                                 /\ Field(c.s, f, "bet80_placed") = "True"
                                        => Field(Store, f, "bet80_placed") = "True"
                                 /\ c.s.unresolved = unresolved_bets
                                 /\ c.s.resolved = resolved_bets
                                 /\ c.notes = <<>>

WindowCorrectnessWitness ==
    \E f \in Fixtures :
        /\ phase[f] = "1H"
        /\ sent[f] = <<"bet36">>
        /\ RegularBet(f, "1-1") \in unresolved_bets

\* C11: a first-half snapshot with minute 35..37 whose score is not 0-0, 1-1,
\* 2-2 or 3-3, processed for a fixture whose 36_bet_placed is not true, sets
\* 36_bet_placed and 36_score, places no decision and sends nothing; after it
\* every snapshot with minute 35..37 of the first half, whatever its score,
\* changes nothing and sends nothing; and a fixture skipped this way has no
\* open or archived decision and no placement notification at any later time.
Unmatched(match) ==
    /\ match.status = "1H"
    /\ match.elapsed \in {35, 36, 37}
    /\ ScoreString(match.home, match.away) \notin {"0-0", "1-1", "2-2", "3-3"}

SkipMarks ==
    \A f \in Fixtures :
        Field(Store, f, "bet36_placed") # "True"
            => \A match \in Snapshots("1H") :
                   Unmatched(match)
                       => LET c == process_match(Store, NoCrash, f, match)
                          IN  /\ Field(c.s, f, "bet36_placed") = "True"
                              /\ Field(c.s, f, "score36") = ScoreString(match.home, match.away)
                              /\ c.s.unresolved = unresolved_bets
                              /\ c.s.resolved = resolved_bets
                              /\ c.notes = <<>>
                              /\ \A m2 \in Snapshots("1H") :
                                     m2.elapsed \in {35, 36, 37}
                                         => LET c2 == process_match(c.s, NoCrash, f, m2)
                                            IN  c2.s = c.s /\ c2.notes = <<>>

Skipped(f) ==
    /\ Field(Store, f, "bet36_placed") = "True"
    /\ Field(Store, f, "score36") \notin {None, "0-0", "1-1", "2-2", "3-3"}

NoDecision(f) ==
    /\ ~Exists(unresolved_bets, f)
    /\ ~Exists(resolved_bets, f)
    /\ PlacementNotes(sent[f]) = <<>>

SkipIsTerminal ==
    /\ []SkipMarks
    /\ \A f \in Fixtures : [](Skipped(f) => []NoDecision(f))

SkipIsTerminalWitness ==
    \E f \in Fixtures :
        /\ Skipped(f)
        /\ phase[f] = "2H"
        /\ Field(Store, f, "result36_checked") = "True"
        /\ NoDecision(f)

\* C12: when a store operation fails while process_match handles a snapshot
\* (a read raising inside get_tracked_match or get_unresolved_bets, or a write
\* of update_tracked_match, add_unresolved_bet or move_to_resolved raising), the
\* fixture's tracked_matches, unresolved_bets and resolved_bets entries after
\* the run are those before it, no checkpoint flag has changed, and the next
\* run on the same snapshot does what a run without the failure would have
\* done.
EntriesOf(s, f) ==
    [tracked |-> {d \in s.tracked : d.id = f},
     unresolved |-> {d \in s.unresolved : d.id = f},
     resolved |-> {d \in s.resolved : d.id = f}]

CheckpointFlags == {"bet36_placed", "result36_checked", "bet36_won", "bet80_placed"}

PersistenceErrorsLeaveStateUnchanged ==
    \A f \in Fixtures :
        \A match \in Snapshots(phase[f]), failing \in SUBSET ReadOps,
           budget \in CrashPoints \cup {NoCrash} :
            LET c == process_match(StoreFailing(failing), budget, f, match)
                retry == process_match(Persisted(c.s), NoCrash, f, match)
                clean == process_match(Store, NoCrash, f, match)
            IN  c.failed
                    => /\ EntriesOf(c.s, f) = EntriesOf(Store, f)
                       /\ \A k \in CheckpointFlags :
                              Field(Persisted(c.s), f, k) = Field(Store, f, k)
                       /\ retry.s = clean.s
                       /\ retry.notes = clean.notes

\* C13: in every call of get_live_matches and of get_fixtures_by_ids, a request
\* answered with the rate-limit status is followed by a sleep of the delay the
\* response provides (60 s when it provides none) and then by the same request
\* again, unless that request has been made max_retries times; so no
\* rate-limited batch of ids is left without a further request in the call.
TimesRequested(log, i) ==
    Cardinality({j \in 1..i : log[j].request = log[i].request})

Retried(log) ==
    \A i \in DOMAIN log :
        log[i].kind = "rate_limited"
            => /\ log[i].slept = IF log[i].retry_after = NoHeader THEN 60
                                 ELSE log[i].retry_after
               /\ \/ TimesRequested(log, i) >= max_retries
                  \/ i < Len(log) /\ log[i + 1].request = log[i].request

RateLimitedRequestsRetried ==
    /\ \A responses \in Scripts(max_retries, LiveLists, {}, RetryAfterValues) :
           Retried(get_live_matches(responses).log)
    /\ \A responses \in [1..MaxChunks -> FixtureResponses(RetryAfterValues)] :
           Retried(get_fixtures_by_ids(Keys(PendingIds), responses).log)

\* C14: a step that archives a decision (at half-time or in
\* check_unresolved_bets) has made exactly one send_telegram call for that
\* decision's outcome, also when the run is cut short right after the archive:
\* the call comes before move_to_resolved; when send_telegram fails, the
\* decision is archived all the same; and a complete run without store
\* failures makes exactly as many outcome calls for a fixture as it archives
\* decisions of that fixture.
OutcomeMessage(bet_type, outcome) ==
    CASE bet_type = "regular" /\ outcome = "win" -> "ht_win"
      [] bet_type = "regular" /\ outcome = "loss" -> "ht_loss"
      [] bet_type = "regular" /\ outcome = "error" -> "ft_regular_unresolved"
      [] bet_type = "chase" /\ outcome = "win" -> "chase_win"
      [] bet_type = "chase" /\ outcome = "loss" -> "chase_loss"
      [] OTHER -> "ft_unknown_bet_type"

OutcomeMessages ==
    {"ht_win", "ht_loss", "ft_regular_unresolved", "chase_win", "chase_loss",
     "ft_unknown_bet_type"}

OutcomeCalls(notes) ==
    SelectSeq(notes, LAMBDA m : \E o \in OutcomeMessages : m \in {o, Undelivered(o)})

NewlyArchived(s1, s2, f) == {r \in s2.resolved \ s1.resolved : r.id = f}

NotifiedArchive ==
    \A r \in resolved_bets' \ resolved_bets :
        LET calls == OutcomeCalls(sent'[r.id])
            message == OutcomeMessage(r.bet.bet_type, r.outcome)
        IN  /\ Len(calls) = 1
            /\ calls[1] \in {message, Undelivered(message)}

ArchivedWithoutNotification ==
    /\ \A d \in unresolved_bets :
           phase[d.id] = "FT"
               => \A answer \in FinishedAnswers(d.id) :
                      LET c == ResolveBet(StoreFailing({"send_telegram"}), NoCrash, d, answer)
                      IN  /\ ~Exists(c.s.unresolved, d.id)
                          /\ \E o \in Outcomes :
                                 /\ ResolvedData(d.id, d, o) \in c.s.resolved
                                 /\ c.notes = <<Undelivered(OutcomeMessage(d.bet_type, o))>>
    /\ \A f \in Fixtures :
           (/\ Field(Store, f, "bet36_placed") = "True"
            /\ Field(Store, f, "result36_checked") # "True"
            /\ Open(Store, f, "regular") # {})
               => \A match \in Snapshots("HT") :
                      match.elapsed # NoElapsed
                          => LET c == process_match(StoreFailing({"send_telegram"}),
                                                    NoCrash, f, match)
                             IN  /\ ~Exists(c.s.unresolved, f)
                                 /\ \E o \in {"win", "loss"} :
                                        /\ NewlyArchived(Store, c.s, f) # {}
                                        /\ \A r \in NewlyArchived(Store, c.s, f) : r.outcome = o
                                        /\ c.notes = <<Undelivered(OutcomeMessage("regular", o))>>

OneCallPerArchive ==
    /\ \A f \in Fixtures :
           \A match \in Snapshots(phase[f]) :
               LET c == process_match(Store, NoCrash, f, match)
               IN  Len(OutcomeCalls(c.notes)) = Cardinality(NewlyArchived(Store, c.s, f))
    /\ \A fixtures \in AllFixtures([f \in Fixtures |-> FixtureAnswers(f)]) :
           LET r == check_unresolved_bets(Store, fixtures, [f \in Fixtures |-> NoCrash])
           IN  \A f \in Fixtures :
                   Len(OutcomeCalls(r.notes[f])) = Cardinality(NewlyArchived(Store, r.s, f))

NotificationPrecedesArchival ==
    /\ []ArchivedWithoutNotification
    /\ []OneCallPerArchive
    /\ [][NotifiedArchive]_vars

NotificationPrecedesArchivalWitness ==
    \E f \in Fixtures :
        /\ sent[f] = <<Undelivered("ht_loss")>>
        /\ LostAtHalfTime(f)
        /\ ~Exists(unresolved_bets, f)

\* C15: for every pending decision of a finished fixture that is not a chase
\* decision (a regular decision never resolved at half-time, or a decision
\* whose bet_type is neither regular nor chase), a check_unresolved_bets cycle
\* in which the feed reports the fixture finished sends the diagnostic
\* notification of its kind, archives it with outcome error and leaves it no
\* longer pending.
Diagnostic(bet_type) ==
    IF bet_type = "regular" THEN "ft_regular_unresolved" ELSE "ft_unknown_bet_type"

UnrecognizedEndAsError ==
    \A d \in unresolved_bets :
        (phase[d.id] = "FT" /\ d.bet_type # "chase")
            => \A fixtures \in AllFixtures([f \in Fixtures |-> FinishedAnswers(f)]) :
                   LET r == check_unresolved_bets(Store, fixtures,
                                                  [f \in Fixtures |-> NoCrash])
                   IN  /\ ~Exists(r.s.unresolved, d.id)
                       /\ ResolvedData(d.id, d, "error") \in r.s.resolved
                       /\ r.notes[d.id] = <<Diagnostic(d.bet_type)>>

UnrecognizedEndAsErrorWitness ==
    \E f \in Fixtures, bet_type \in ForeignBetTypes :
        /\ phase[f] = "FT"
        /\ ResolvedData(f, ForeignBet(f, bet_type), "error") \in resolved_bets
        /\ ~Exists(unresolved_bets, f)
        /\ sent[f] = <<"ft_unknown_bet_type">>

\* C16: for every pending decision whose fixture is missing from the fetched
\* fixtures or is fetched with a status other than FT, check_unresolved_bets
\* leaves the fixture's unresolved_bets, tracked_matches and resolved_bets
\* entries as they were and sends nothing for it; the decision is still
\* pending for the next cycle.
Unfinished(match_data) == ~match_data.found \/ match_data.status # "FT"

UnfinishedUntouched ==
    \A fixtures \in AllFixtures([f \in Fixtures |-> FixtureAnswers(f)]) :
        LET r == check_unresolved_bets(Store, fixtures, [f \in Fixtures |-> NoCrash])
        IN  \A d \in unresolved_bets :
                Unfinished(fixtures[d.id])
                    => /\ EntriesOf(r.s, d.id) = EntriesOf(Store, d.id)
                       /\ r.notes[d.id] = <<>>
                       /\ d \in get_unresolved_bets(r.s, None)

UnfinishedUntouchedWitness ==
    \E f \in Fixtures :
        /\ phase[f] = "2H"
        /\ Open(Store, f, "chase") # {}
        /\ sent[f] = <<>>

\* C17: for every fixture and every snapshot without an elapsed minute,
\* process_match ends without a store operation and without a notification:
\* whichever store operations would fail and even if no write could succeed,
\* the run meets no failure, attempts no effect, leaves tracked_matches,
\* unresolved_bets and resolved_bets as they were and sends nothing.
AbsentMinuteNoOp ==
    \A f \in Fixtures, match \in AnySnapshot, failing \in SUBSET ExternalOps :
        match.elapsed = NoElapsed
            => LET c == process_match(StoreFailing(failing), 0, f, match)
               IN  /\ ~c.failed
                   /\ ~c.halted
                   /\ Persisted(c.s) = Store
                   /\ c.notes = <<>>

AbsentMinuteNoOpWitness ==
    \E f \in Fixtures :
        /\ phase[f] = "HT"
        /\ Open(Store, f, "regular") # {}
        /\ Field(Store, f, "result36_checked") # "True"
        /\ \E match \in Snapshots(phase[f]) :
               /\ match.elapsed = NoElapsed
               /\ process_match(Store, NoCrash, f, match).s = Store
        /\ \E match \in Snapshots(phase[f]) :
               /\ match.elapsed # NoElapsed
               /\ process_match(Store, NoCrash, f, match).s # Store

\* C18: add_unresolved_bet for a fixture without a tracked_matches document
\* fails and leaves the store as it was; for a fixture with the document it
\* writes the decision and every tracked update and nothing else; and, also
\* with runs cut short anywhere, a step places a decision exactly when it sets
\* the placement flag and score of that decision in tracked_matches.
PutPendingCases(f) ==
    {[data |-> RegularBet(f, "1-1"),
      updates |-> [bet36_placed |-> "True", score36 |-> "1-1", last_update |-> "fresh"]],
     [data |-> ChaseBet(f, default_state, "1-0"),
      updates |-> [bet80_placed |-> "True", score80 |-> "1-0", last_update |-> "fresh"]]}

PutPendingChecked ==
    \A f \in Fixtures :
        \A case \in PutPendingCases(f) :
            LET r == add_unresolved_bet(Store, f, case.data, case.updates)
            IN  IF ~Exists(tracked_matches, f)
                THEN ~r.ok /\ r.s = Store
                ELSE /\ r.ok
                     /\ case.data \in r.s.unresolved
                     /\ \A k \in DOMAIN case.updates : Field(r.s, f, k) = case.updates[k]
                     /\ \A k \in TrackedKeys \ DOMAIN case.updates :
                            Field(r.s, f, k) = Field(Store, f, k)
                     /\ r.s.resolved = resolved_bets
                     /\ \A d \in r.s.unresolved : d.id # f => d \in unresolved_bets

BecomesTrue(f, k) == Field(Store, f, k) # "True" /\ Field(Store, f, k)' = "True"

PlacedWithState ==
    \A f \in Fixtures :
        /\ \A d \in Placed(Store, Store', f, "regular") :
               /\ Field(Store, f, "bet36_placed")' = "True"
               /\ Field(Store, f, "score36")' = d.initial_score
        /\ \A d \in Placed(Store, Store', f, "chase") :
               /\ Field(Store, f, "bet80_placed")' = "True"
               /\ Field(Store, f, "score80")' = d.score80
        /\ (/\ BecomesTrue(f, "bet36_placed")
            /\ Field(Store, f, "score36")' \in {"0-0", "1-1", "2-2", "3-3"})
               => Open(Store, f, "regular")' # {}
        /\ BecomesTrue(f, "bet80_placed") => Open(Store, f, "chase")' # {}

PutPendingRequiresState == []PutPendingChecked /\ [][PlacedWithState]_vars

PutPendingRequiresStateWitness ==
    \E f \in Fixtures, d \in unresolved_bets :
        /\ d.id = f
        /\ d.bet_type = "regular"
        /\ phase[f] = "HT"
        /\ Field(Store, f, "score36") = d.initial_score
        /\ Field(Store, f, "bet36_placed") = "True"

\* C19: a tracked_matches document, once created, is kept by every step of
\* the lifecycle and of the resolution engine, and every field it holds is
\* still held after the step (the periodic cleanup, which removes a document
\* older than the cutoff that has no pending decision, is not such a step).
CleanupMayRemove(f) ==
    /\ Doc(tracked_matches, f).last_update = "old"
    /\ ~Exists(unresolved_bets, f)

MatchStateMergeOnly ==
    [][\A f \in Fixtures :
          (Exists(tracked_matches, f) /\ ~CleanupMayRemove(f))
              => /\ Exists(tracked_matches', f)
                 /\ \A k \in TrackedKeys :
                        Doc(tracked_matches, f)[k] # Absent
                            => Doc(tracked_matches', f)[k] # Absent]_vars

\* C20: whatever the feed answers in a cycle (success, errors on every
\* attempt, the rate-limit status on every attempt), get_live_matches has
\* returned a list, check_unresolved_bets has been executed in that cycle and
\* run_bot_cycle has returned True.
CycleReachesResolution ==
    last_cycle # NoCycle
        => /\ last_cycle.live_result = "list"
           /\ last_cycle.resolution_ran
           /\ last_cycle.returned = "True"

\* C21: when check_unresolved_bets resolves a chase decision of a finished
\* fixture, the archived outcome is win if and only if the final score string
\* equals the 80_score stored in the decision, and loss otherwise; the outcome
\* is the same whatever the other fields of the decision and whatever the
\* fixture's tracked_matches document hold.
ScoreStrings == {ScoreString(g[1], g[2]) : g \in GoalPairs}

ChaseVariants(d) ==
    {[d EXCEPT !.score36 = a, !.ht_score = b, !.initial_score = b] :
        a \in ScoreStrings \cup {None}, b \in ScoreStrings}

ExpectedChaseOutcome(d, match_data) ==
    IF ScoreString(match_data.home, match_data.away) = d.score80 THEN "win" ELSE "loss"

ChaseResolutionRule ==
    \A d \in unresolved_bets :
        (phase[d.id] = "FT" /\ d.bet_type = "chase")
            => \A fixtures \in AllFixtures([f \in Fixtures |-> FinishedAnswers(f)]) :
                   LET o == ExpectedChaseOutcome(d, fixtures[d.id])
                       r == check_unresolved_bets(Store, fixtures,
                                                  [f \in Fixtures |-> NoCrash])
                   IN  /\ ResolvedData(d.id, d, o) \in r.s.resolved
                       /\ \A x \in r.s.resolved : x.id = d.id => x.outcome = o
                       /\ ~Exists(r.s.unresolved, d.id)
                       /\ r.notes[d.id] = <<"chase_" \o o>>
                       /\ \A v \in ChaseVariants(d), tracked \in {tracked_matches, {}} :
                              LET s2 == [Store EXCEPT !.unresolved = DocSet(@, v),
                                                      !.tracked = tracked]
                                  r2 == check_unresolved_bets(s2, fixtures,
                                                              [f \in Fixtures |-> NoCrash])
                              IN  /\ ResolvedData(d.id, v, o) \in r2.s.resolved
                                  /\ r2.notes[d.id] = r.notes[d.id]

ChaseResolutionRuleWitness ==
    \E f \in Fixtures, w \in resolved_bets :
        /\ phase[f] = "FT"
        /\ w.id = f
        /\ w.bet.bet_type = "chase"
        /\ w.outcome = "win"
        /\ sent[f] = <<"chase_win">>
        /\ ~Exists(unresolved_bets, f)

\* C22: in every state between two runs, also after a run that was cut short
\* between move_to_resolved and the following update_tracked_match of the
\* half-time check, a fixture (at half-time or in its second half) whose
\* primary decision is archived with outcome loss has 36_bet_won = False and
\* 36_result_checked = True in its persisted state, and a fixture whose
\* primary decision is archived with outcome win has 36_bet_won = True.
WonAtHalfTime(f) ==
    \E r \in resolved_bets : r.id = f /\ r.bet.bet_type = "regular" /\ r.outcome = "win"

HalfTimeResolutionSurvivesCrash ==
    \A f \in Fixtures :
        phase[f] \in {"HT", "2H"}
            => /\ LostAtHalfTime(f)
                      => /\ Field(Store, f, "bet36_won") = "False"
                         /\ Field(Store, f, "result36_checked") = "True"
               /\ WonAtHalfTime(f) => Field(Store, f, "bet36_won") = "True"

\* C23: unresolved_bets holds at most one document per fixture id, whatever
\* the kind; a run of process_match that writes a chase decision for a fixture
\* starts from a state in which the fixture has no open decision and its
\* primary decision is archived; and per fixture the events come in the order
\* primary placed, primary archived, chase placed, chase archived: no primary
\* decision is placed once one is archived or a chase exists, a decision is
\* archived only when it was open, and a chase is archived only after the
\* primary.
OneDocumentPerFixture ==
    \A d1 \in unresolved_bets, d2 \in unresolved_bets : d1.id = d2.id => d1 = d2

PrimaryArchived(f) == \E r \in resolved_bets : r.id = f /\ r.bet.bet_type = "regular"

ChaseSeen(f) ==
    \/ Open(Store, f, "chase") # {}
    \/ \E r \in resolved_bets : r.id = f /\ r.bet.bet_type = "chase"

ChaseWritesOverNothing ==
    \A f \in Fixtures :
        \A match \in Snapshots(phase[f]), budget \in CrashPoints \cup {NoCrash} :
            LET c == process_match(Store, budget, f, match)
            IN  (\/ Placed(Store, c.s, f, "chase") # {}
                 \/ \E i \in DOMAIN c.notes : c.notes[i] = "chase80")
                    => /\ ~Exists(unresolved_bets, f)
                       /\ PrimaryArchived(f)
                       /\ Cardinality({d \in c.s.unresolved : d.id = f}) = 1

LifecycleOrderStep ==
    \A f \in Fixtures :
        /\ Placed(Store, Store', f, "regular") # {}
               => /\ ~Exists(unresolved_bets, f)
                  /\ ~Exists(resolved_bets, f)
                  /\ ~ChaseSeen(f)
        /\ Placed(Store, Store', f, "chase") # {}
               => /\ ~Exists(unresolved_bets, f)
                  /\ PrimaryArchived(f)
                  /\ ~ChaseSeen(f)
        /\ \A r \in resolved_bets' \ resolved_bets :
               r.id = f
                   => /\ r.bet \in unresolved_bets
                      /\ r.bet.bet_type = "chase"
                             => PrimaryArchived(f) /\ Open(Store, f, "regular") = {}
                      /\ r.bet.bet_type = "regular" => ~ChaseSeen(f)

PrimaryRecords(s, f) ==
    Open(s, f, "regular")
        \cup {r.bet : r \in {x \in s.resolved : x.id = f /\ x.bet.bet_type = "regular"}}

DecisionHasFlag(s, f) ==
    /\ \A d \in PrimaryRecords(s, f) : d.initial_score \in {"0-0", "1-1", "2-2", "3-3"}
    /\ \A d \in Open(s, f, "regular") :
           /\ Field(s, f, "bet36_placed") = "True"
           /\ Field(s, f, "score36") = d.initial_score
    /\ \A d \in Open(s, f, "chase") :
           /\ Field(s, f, "bet80_placed") = "True"
           /\ Field(s, f, "score80") = d.score80

BothOrNeither ==
    \A f \in Fixtures :
        \A case \in PutPendingCases(f) :
            LET r == add_unresolved_bet(Store, f, case.data, case.updates)
                flag == CHOOSE k \in {"bet36_placed", "bet80_placed"} : k \in DOMAIN case.updates
            IN  IF r.ok
                THEN /\ case.data \in r.s.unresolved
                     /\ Field(r.s, f, flag) = "True"
                ELSE /\ r.s = Store
                     /\ WriteTx(Begin(Store, NoCrash), r).s = Store
                     /\ WriteTx(Begin(Store, NoCrash), r).halted

PlacementRuns ==
    \A f \in Fixtures :
        \A match \in Snapshots(phase[f]), budget \in (0..(MaxEffects - 1)) \cup {NoCrash} :
            LET c == process_match(Store, budget, f, match)
                placed36 == Placed(Store, c.s, f, "regular") # {}
                placed80 == Placed(Store, c.s, f, "chase") # {}
                set36 == /\ Field(Store, f, "bet36_placed") # "True"
                         /\ Field(c.s, f, "bet36_placed") = "True"
                         /\ Field(c.s, f, "score36") \in {"0-0", "1-1", "2-2", "3-3"}
                set80 == /\ Field(Store, f, "bet80_placed") # "True"
                         /\ Field(c.s, f, "bet80_placed") = "True"
            IN  /\ placed36 <=> set36
                /\ placed80 <=> set80
                /\ DecisionHasFlag(c.s, f)
                /\ (\E i \in DOMAIN c.notes : c.notes[i] = "bet36") => placed36 /\ set36
                /\ (\E i \in DOMAIN c.notes : c.notes[i] = "chase80") => placed80 /\ set80

PlacementAndFlagTogether ==
    /\ \A f \in Fixtures : DecisionHasFlag(Store, f)
    /\ BothOrNeither
    /\ PlacementRuns

PlacementAndFlagTogetherWitness ==
    \E f \in Fixtures :
        /\ phase[f] = "1H"
        /\ Open(Store, f, "regular") # {}
        /\ Field(Store, f, "bet36_placed") = "True"
        /\ sent[f] = <<>>
        /\ \E match \in Snapshots(phase[f]), budget \in CrashPoints :
               LET c == process_match([Store EXCEPT !.tracked = {}, !.unresolved = {}],
                                      budget, f, match)
               IN  c.s = Store /\ c.halted /\ c.notes = <<>>

\* C25: in every reachable state each fixture with an entry in unresolved_bets
\* has a tracked_matches document; add_unresolved_bet fails without the
\* document; move_to_resolved leaves no pending entry of the fixture whose
\* document it deletes, and deletes nothing when the entry is not pending;
\* cleanup_old_matches deletes only documents of fixtures without a pending
\* entry; and a step in which a fixture's document disappears either removes
\* the fixture's pending entry or finds none.
OpenHasMatchState == \A d \in unresolved_bets : Exists(tracked_matches, d.id)

StoreOperationsKeepMatchState ==
    /\ \A f \in Fixtures :
           \A case \in PutPendingCases(f) :
               ~Exists(tracked_matches, f)
                   => ~add_unresolved_bet(Store, f, case.data, case.updates).ok
    /\ \A f \in Fixtures, bet_type \in {"regular", "chase"}, o \in Outcomes :
           LET bet_info == IF Exists(unresolved_bets, f) THEN Doc(unresolved_bets, f)
                           ELSE IF bet_type = "regular" THEN RegularBet(f, "0-0")
                           ELSE ChaseBet(f, default_state, "0-0")
               r == move_to_resolved(Store, f, bet_info, o)
           IN  /\ r.ok <=> Exists(unresolved_bets, f)
               /\ ~r.ok => r.s = Store
               /\ ~Exists(r.s.unresolved, f)
               /\ \A g \in Fixtures : g # f => EntriesOf(r.s, g) = EntriesOf(Store, g)
    /\ LET s2 == cleanup_old_matches(Store)
       IN  /\ s2.unresolved = unresolved_bets
           /\ s2.resolved = resolved_bets
           /\ \A d \in tracked_matches :
                  IF d.last_update = "old" /\ ~Exists(unresolved_bets, d.id)
                  THEN ~Exists(s2.tracked, d.id)
                  ELSE d \in s2.tracked

MatchStateRemovedStep ==
    \A f \in Fixtures :
        (Exists(tracked_matches, f) /\ ~Exists(tracked_matches', f))
            => /\ ~Exists(unresolved_bets', f)
               /\ \/ Exists(unresolved_bets, f)
                  \/ Doc(tracked_matches, f).last_update = "old"

OpenDecisionHasMatchState ==
    /\ []OpenHasMatchState
    /\ []StoreOperationsKeepMatchState
    /\ [][MatchStateRemovedStep]_vars

OpenDecisionHasMatchStateWitness ==
    \E f \in Fixtures :
        /\ phase[f] = "FT"
        /\ Open(Store, f, "chase") # {}
        /\ Doc(tracked_matches, f).last_update = "old"
        /\ cleanup_old_matches(Store) = Store

\* C26: in an iteration of main, a successful cycle sets consecutive_errors
\* to 0 and the sleep to 90 s; a failed cycle adds 1 to it and sets the sleep
\* to min(300, 30 * consecutive_errors) s; when the count reaches 5 exactly
\* one alert is sent and the count is set back to 0, otherwise no alert is
\* sent; so the count is in 0..4 at the start of every iteration; and after
\* every iteration, whatever the cycle returned and even when health_check
\* raised (main then sleeps 60 s instead), main is in its loop, about to run
\* another cycle.
Count(notes, message) == Cardinality({i \in DOMAIN notes : notes[i] = message})

MainStepped ==
    <<consecutive_errors, sleep_time, main_sent, last_cycle>>'
        # <<consecutive_errors, sleep_time, main_sent, last_cycle>>

ExpectedBackoff(n) == IF 30 * n < 300 THEN 30 * n ELSE 300

DriverStep ==
    MainStepped
        => LET success == last_cycle'.returned = "True"
               fatal == Count(main_sent', "critical_error") > 0
               alerts == Count(main_sent', "critical_alert")
               n == consecutive_errors + 1
           IN  /\ last_cycle'.returned \in {"True", "False"}
               /\ success => /\ consecutive_errors' = 0
                              /\ alerts = 0
                              /\ (fatal \/ sleep_time' = 90)
               /\ ~success => /\ (fatal \/ sleep_time' = ExpectedBackoff(n))
                               /\ IF n = 5
                                  THEN consecutive_errors' = 0 /\ alerts = 1
                                  ELSE consecutive_errors' = n /\ alerts = 0
               /\ fatal => sleep_time' = 60
               /\ main_pc' = "loop"

DriverGoesOn ==
    /\ consecutive_errors \in 0..4
    /\ main_pc = "loop"
    /\ \A success \in BOOLEAN, health \in HealthOutcomes :
           main(consecutive_errors, success, health).pc = "loop"

DriverNeverHalts == []DriverGoesOn /\ [][DriverStep]_vars

DriverNeverHaltsWitness ==
    /\ last_cycle.returned = "False"
    /\ consecutive_errors = 0
    /\ main_sent = <<"critical_alert">>
    /\ sleep_time = 150
    /\ main_pc = "loop"

====
